---- MODULE Spec2Model ----
(***************************************************************************)
(* Authorization gateway of abac-rebac-poc: two FastAPI programs.          *)
(*   src/opa/python/main.py      attribute backend (OPA as the PDP)         *)
(*   src/openfga/python/main.py  graph backend (OpenFGA as the PDP)         *)
(* A behaviour is a run of one of the two programs (variable app) serving   *)
(* its requests one at a time (Spec) or up to MaxReq of them overlapping    *)
(* (SpecConc).  A request is suspended only at an await of an               *)
(* outbound call, so every action runs one request from one                 *)
(* outbound call to the next.  Python dicts are functions, None is the      *)
(* value None, strings are strings (f"user:{x}" is "user:" \o x).           *)
(* datetime.utcnow() values are left out of the payloads.                   *)
(***************************************************************************)
EXTENDS Naturals, Sequences, FiniteSets, TLC

VARIABLES
    app,              \* which program runs: "opa" or "fga"
    req,              \* the requests in flight, per slot
    opa_data,         \* OPA: the five data sections under /v1/data
    opa_policies,     \* OPA: policy slot -> policy source under /v1/policies
    store_file,       \* the content of OPENFGA_STORE_ID_FILE, None when missing
    OPENFGA_STORE_ID, \* module global read once at import
    fga_client,       \* module global _fga_client: None or the built client
    fga_tuples        \* OpenFGA: store id -> set of relationship tuples

vars == <<app, req, opa_data, opa_policies, store_file, OPENFGA_STORE_ID,
          fga_client, fga_tuples>>

opaVars == <<opa_data, opa_policies>>
fgaVars == <<store_file, OPENFGA_STORE_ID, fga_client, fga_tuples>>

\* Requests are served one at a time
Reqs == {1}

\* or up to MaxReq of them overlap, each slot serving one request
MaxReq == 2
ConcReqs == 1..MaxReq

None == "None"
EmptyDoc == [k \in {} |-> TRUE]

\* dict.get(key, default)
Get(d, k, default) == IF k \in DOMAIN d THEN d[k] ELSE default

\* Python truthiness of a string or None
Truthy(v) == v # None /\ v # ""

\* x or y
Or(x, y) == IF Truthy(x) THEN x ELSE y

\* str.lower() on the verbs a request can carry
Lower(method) ==
    CASE method = "GET" -> "get"
      [] method = "POST" -> "post"
      [] method = "PUT" -> "put"
      [] method = "PATCH" -> "patch"
      [] method = "DELETE" -> "delete"
      [] method = "HEAD" -> "head"
      [] OTHER -> method

\* authorization.replace("Bearer ", "")
StripBearer(authorization) ==
    CASE authorization = "Bearer t1" -> "t1"
      [] authorization = "Bearer t2" -> "t2"
      [] OTHER -> authorization

(***************************************************************************)
(* Inputs                                                                  *)
(***************************************************************************)
Authorizations == {None, "Bearer t1"}

\* The HTTP verbs a request can carry
Verbs == {"GET", "POST", "PUT", "PATCH", "DELETE", "HEAD"}

\* What the introspection authority can answer: the call raises, answers a
\* non-200 status, a body that is no JSON object, or a token record.
TokenInfos ==
    { EmptyDoc,
      [active |-> FALSE, client_id |-> "alice"],
      [active |-> TRUE, preferred_username |-> ""],
      [active |-> TRUE, client_id |-> "alice", scope |-> "openid"],
      [active |-> TRUE, client_id |-> "svc", preferred_username |-> "bob"],
      [active |-> TRUE, client_id |-> "carol"] }

IntrospectReplies ==
    { [kind |-> "raise"], [kind |-> "status", status |-> 500],
      [kind |-> "notjson", status |-> 200] }
    \cup { [kind |-> "json", status |-> 200, json |-> t] : t \in TokenInfos }

\* The resources are doc1 .. doc<MaxResources>
MaxResources == 2
Resources == { "doc" \o ToString(n) : n \in 1..MaxResources }

PutBodies == { EmptyDoc, [sensitivity |-> "high"] }

\* len(str(request_body)) for the bodies of PutBodies
ReprLen(body) == IF body = EmptyDoc THEN 2 ELSE 23

Opa_GrantBodies ==
    { [user |-> "carol", relation |-> "write"],
      EmptyDoc }

\* The grants overlapping requests send
Conc_GrantBodies ==
    { [user |-> "carol", relation |-> "write"],
      [user |-> "dave", relation |-> "read"] }

Fga_GrantBodies ==
    { [user |-> "carol"],
      [user |-> "user:carol", relation |-> "can_view"],
      EmptyDoc }

\* A request slot.  op, method, rid, hdr and body are the request; user is
\* the dict auth_middleware returned, allowed what check_authorization
\* returned, cur the handler's document (OPA: current_permissions, OpenFGA:
\* the tuple to write) and resp the response.  The rest is history of this
\* request: ir, pdp, rd and wr are the replies to its introspection,
\* decision, read and write calls, input the decision input it sent, pre
\* the stored state
\* its mutation found, applied the writes the PDP applied for it and calls
\* the outbound calls it issued, in order, handle the client get_fga_client
\* gave it and built whether that call constructed the client.  calls
\* lists a call once it has been answered.  sec is the index of the section
\* whose PUT update_permissions waits on, updated_sections its list.
NoReply == [kind |-> "none"]
NoResp == [status |-> 0, body |-> EmptyDoc]
Idle ==
    [ pc |-> "idle", op |-> "-", method |-> "-", rid |-> "-", hdr |-> None,
      body |-> EmptyDoc, user |-> EmptyDoc, ir |-> NoReply,
      input |-> EmptyDoc, pdp |-> NoReply, allowed |-> FALSE,
      cur |-> EmptyDoc, pre |-> EmptyDoc, rd |-> NoReply, wr |-> NoReply,
      applied |-> {}, calls |-> <<>>, handle |-> None, built |-> FALSE,
      sec |-> 0, updated_sections |-> <<>>, resp |-> NoResp ]

\* The method of the request (the grant routes are POST routes)
MethodOf(op) == IF op = "GRANT" THEN "POST" ELSE op

HTTPException(status, detail) == [status |-> status, body |-> [detail |-> detail]]

(***************************************************************************)
(* Attribute backend: src/opa/python/main.py                               *)
(***************************************************************************)
ENDPOINT_ACTIONS ==
    [ GET |-> "read", POST |-> "create", PUT |-> "update",
      PATCH |-> "update", DELETE |-> "delete" ]

\* auth_middleware: the 401 response, or the user dict with status 200
Opa_auth_middleware(authorization, ir) ==
    IF ~Truthy(authorization) THEN HTTPException(401, "Missing token")
    ELSE IF ir.kind = "raise" THEN HTTPException(401, "Invalid token: error")
    ELSE IF ir.status # 200 THEN HTTPException(401, "Token introspection failed")
    ELSE IF ir.kind = "notjson" THEN HTTPException(401, "Invalid token: error")
    ELSE IF ~Get(ir.json, "active", FALSE)
         THEN HTTPException(401, "Token is not active")
    ELSE [ status |-> 200,
           body |-> [ user_id |-> Get(ir.json, "client_id", "unknown"),
                      client_id |-> Get(ir.json, "client_id", "unknown"),
                      token |-> StripBearer(authorization),
                      scope |-> Get(ir.json, "scope", "") ] ]

\* ENDPOINT_ACTIONS.get(method, method.lower())
Opa_mapAction(method) == Get(ENDPOINT_ACTIONS, method, Lower(method))

\* policy_input of check_authorization
Opa_policy_input(user_id, resource_id, method, context) ==
    [ user |-> user_id,
      resource |-> resource_id,
      action |-> Opa_mapAction(method),
      method |-> method,
      context |-> context ]

\* check_authorization with "except Exception: return True"
Opa_check_authorization_FailOpen(reply) ==
    IF reply.kind = "raise" THEN TRUE
    ELSE IF reply.status # 200 THEN FALSE
    ELSE Get(reply.json, "result", FALSE)

\* check_authorization with result.get("result", True)
Opa_check_authorization_DefaultTrue(reply) ==
    IF reply.kind = "raise" THEN FALSE
    ELSE IF reply.status # 200 THEN FALSE
    ELSE Get(reply.json, "result", TRUE)

\* check_authorization that returns True for a non-200 answer
Opa_check_authorization_StatusOpen(reply) ==
    IF reply.kind = "raise" THEN FALSE
    ELSE IF reply.status # 200 THEN TRUE
    ELSE Get(reply.json, "result", FALSE)

\* check_authorization, given the PDP's reply to the decision call
Opa_check_authorization(reply) ==
    IF reply.kind = "raise" THEN FALSE
    ELSE IF reply.status # 200 THEN FALSE
    ELSE Get(reply.json, "result", FALSE)

\* The OPA server: one policy source allows an input or not; the rule
\* authz.allow is true when some installed policy allows it.
PolicyAllows(src, data, input) ==
    CASE src = "allow_all" -> TRUE
      [] src = "by_permissions" ->
            /\ input.user \in DOMAIN data.permissions
            /\ input.resource \in DOMAIN data.permissions[input.user]
            /\ input.action \in DOMAIN data.permissions[input.user][input.resource]
            /\ data.permissions[input.user][input.resource][input.action] = TRUE
      [] OTHER -> FALSE

OpaAllow(policies, data, input) ==
    \E n \in DOMAIN policies : PolicyAllows(policies[n], data, input)

\* What POST /v1/data/authz/allow can answer for an input
OpaDecisionReplies(input) ==
    { [kind |-> "raise"],
      [kind |-> "status", status |-> 500],
      [kind |-> "json", status |-> 200, json |-> EmptyDoc],
      [kind |-> "json", status |-> 200,
       json |-> [result |-> OpaAllow(opa_policies, opa_data, input)]] }


\* The context dict each handler builds
Opa_context(op, body) ==
    CASE op = "GET" ->
            [ resource_type |-> "document", sensitivity_level |-> "normal",
              department |-> "engineering" ]
      [] op = "PUT" ->
            [ resource_type |-> "document",
              sensitivity_level |-> Get(body, "sensitivity", "normal"),
              content_size |-> ReprLen(body),
              modification_type |-> "content_update",
              department |-> "engineering" ]
      [] op = "DELETE" ->
            [ resource_type |-> "document", has_dependencies |-> FALSE,
              backup_available |-> TRUE, deletion_reason |-> "user_request",
              department |-> "engineering" ]
      [] op = "GRANT" ->
            [ resource_type |-> "document",
              grant_type |-> "permission_delegation",
              target_user |-> Get(body, "user", "unknown"),
              permission_level |-> Get(body, "relation", "read"),
              department |-> "engineering" ]

\* The context handed to check_authorization: grant_access adds "action"
Opa_check_context(op, body) ==
    IF op = "GRANT"
    THEN ("action" :> "grant_permission") @@ Opa_context(op, body)
    ELSE Opa_context(op, body)

\* The 200 payload of get_resource, update_resource, delete_resource
Opa_resource_ok(op, rid, user_id, body) ==
    CASE op = "GET" ->
            [ status |-> 200,
              body |-> [ resource_id |-> rid, access |-> "granted",
                         user |-> user_id, action |-> ENDPOINT_ACTIONS[op],
                         context |-> Opa_context(op, body) ] ]
      [] op = "PUT" ->
            [ status |-> 200,
              body |-> [ resource_id |-> rid, action |-> "updated",
                         user |-> user_id, context |-> Opa_context(op, body) ] ]
      [] op = "DELETE" ->
            [ status |-> 200,
              body |-> [ resource_id |-> rid, action |-> "deleted",
                         user |-> user_id, context |-> Opa_context(op, body) ] ]

\* The denial each handler raises when check_authorization is falsy
Opa_denied(op) ==
    IF op = "GRANT"
    THEN HTTPException(403, "Only resource administrators can grant access")
    ELSE HTTPException(403, "Access denied")

ResourceOps == {"GET", "PUT", "DELETE"}
ProtectedOps == ResourceOps \cup {"GRANT"}

BodiesOf(op) ==
    CASE op = "PUT" -> PutBodies
      [] op = "GRANT" -> IF app = "opa" THEN Opa_GrantBodies ELSE Fga_GrantBodies
      [] OTHER -> {EmptyDoc}

\* A protected request arrives and auth_middleware runs (Depends); a grant
\* carries one of the given bodies
Opa_Arrive(i, grantBodies) ==
    /\ app = "opa"
    /\ req[i].pc = "idle"
    /\ \E op \in ProtectedOps, rid \in Resources, hdr \in Authorizations,
          ir \in IntrospectReplies :
        \E body \in IF op = "GRANT" THEN grantBodies ELSE BodiesOf(op) :
          LET u == Opa_auth_middleware(hdr, ir)
              r == [ Idle EXCEPT !.op = op, !.method = MethodOf(op),
                                 !.rid = rid, !.hdr = hdr, !.body = body,
                                 !.ir = IF Truthy(hdr) THEN ir ELSE NoReply,
                                 !.calls = IF Truthy(hdr)
                                           THEN << <<"introspect", "">> >>
                                           ELSE <<>> ]
          IN req' = [ req EXCEPT ![i] =
                        IF u.status = 200
                        THEN [ r EXCEPT !.pc = "decide", !.user = u.body ]
                        ELSE [ r EXCEPT !.pc = "done", !.resp = u ] ]
    /\ UNCHANGED <<app, opaVars, fgaVars>>

Opa_Verify(i) == Opa_Arrive(i, Opa_GrantBodies)

\* check_authorization and what the handler does with its answer
Opa_Decide(i) ==
    /\ app = "opa"
    /\ req[i].pc = "decide"
    /\ LET r == req[i]
           input == Opa_policy_input(r.user.user_id, r.rid, r.method,
                                     Opa_check_context(r.op, r.body))
       IN \E reply \in OpaDecisionReplies(input) :
            LET allowed == Opa_check_authorization(reply)
                r1 == [ r EXCEPT !.input = input, !.pdp = reply,
                                 !.allowed = allowed,
                                 !.calls = Append(@, <<"decide", "authz/allow">>) ]
            IN req' = [ req EXCEPT ![i] =
                 IF ~allowed
                 THEN [ r1 EXCEPT !.pc = "done", !.resp = Opa_denied(r.op) ]
                 ELSE IF r.op = "GRANT"
                 THEN [ r1 EXCEPT !.pc = "read" ]
                 ELSE [ r1 EXCEPT !.pc = "done",
                          !.resp = Opa_resource_ok(r.op, r.rid, r.user.user_id,
                                                   r.body) ] ]
    /\ UNCHANGED <<app, opaVars, fgaVars>>

\* a PUT that adds the members of the document to the stored section
\* instead of replacing the section
Opa_put_section_Merging(data, s, doc) == [ data EXCEPT ![s] = doc @@ @ ]

\* the PUT of every section sent to /v1/data/permissions
Opa_put_section_WrongUrl(data, s, doc) == [ data EXCEPT !.permissions = doc ]

\* client.put(f"{OPA_URL}/v1/data/<section>", json=doc), applied by the PDP
Opa_put_section(data, s, doc) == [ data EXCEPT ![s] = doc ]

\* grant_access lines 208-213: the nested insert into current_permissions
Opa_grant_merge(cur, target_user, rid, permission) ==
    LET c1 == IF target_user \in DOMAIN cur THEN cur
              ELSE cur @@ (target_user :> EmptyDoc)
        c2 == IF rid \in DOMAIN c1[target_user] THEN c1
              ELSE [ c1 EXCEPT ![target_user] = @ @@ (rid :> EmptyDoc) ]
    IN [ c2 EXCEPT ![target_user][rid] = (permission :> TRUE) @@ @ ]

\* json= of httpx: a None key is written as "null"; of two members with the
\* same name the PDP keeps the later one, which is the None key's
ToJson(doc) ==
    [ k \in { IF x = None THEN "null" ELSE x : x \in DOMAIN doc } |->
        IF k = "null" /\ None \in DOMAIN doc THEN doc[None] ELSE doc[k] ]

\* What GET /v1/data/permissions can answer
DataReadReplies ==
    { [kind |-> "raise"],
      [kind |-> "status", status |-> 500],
      [kind |-> "json", status |-> 200, json |-> [result |-> opa_data.permissions]] }

\* What a PUT to the PDP can do: apply and answer 204, refuse with a
\* non-success status, or fail in transport (nothing applied)
WriteOutcomes == {"ok", "rejected", "raise"}

Opa_grant_ok(rid, body) ==
    [ status |-> 200,
      body |-> [ message |-> "Access granted successfully",
                 granted_to |-> Get(body, "user", None),
                 permission |-> Get(body, "relation", "read"),
                 resource |-> rid,
                 context |-> Opa_context("GRANT", body) ] ]

\* current_permissions after the read reply (lines 203-205)
Opa_current_permissions(reply) ==
    IF reply.status = 200 THEN Get(reply.json, "result", EmptyDoc) ELSE EmptyDoc

\* grant_access: GET of the permissions section, then the insert
Opa_GrantRead(i) ==
    /\ app = "opa"
    /\ req[i].pc = "read"
    /\ LET r == req[i]
           r1 == [ r EXCEPT !.calls = Append(@, <<"data_get", "permissions">>),
                            !.pre = opa_data.permissions ]
       IN \E reply \in DataReadReplies :
            req' = [ req EXCEPT ![i] =
              IF reply.kind = "raise"
              THEN [ r1 EXCEPT !.pc = "done", !.rd = reply,
                       !.resp = HTTPException(500, "Failed to grant access") ]
              ELSE [ r1 EXCEPT !.pc = "write", !.rd = reply,
                       !.cur = Opa_grant_merge(Opa_current_permissions(reply),
                                               Get(r.body, "user", None), r.rid,
                                               Get(r.body, "relation", "read")) ] ]
    /\ UNCHANGED <<app, opaVars, fgaVars>>

\* grant_access: PUT of the whole section, then the response
Opa_GrantWrite(i) ==
    /\ app = "opa"
    /\ req[i].pc = "write"
    /\ LET r == req[i]
       IN \E out \in WriteOutcomes :
            LET r1 == [ r EXCEPT !.calls = Append(@, <<"data_put", "permissions">>),
                                 !.wr = [kind |-> out], !.pc = "done" ]
            IN
            IF out = "ok"
            THEN /\ opa_data' = Opa_put_section(opa_data, "permissions",
                                                 ToJson(r.cur))
                 /\ req' = [ req EXCEPT ![i] =
                             [ r1 EXCEPT !.applied = {"permissions"},
                                         !.resp = Opa_grant_ok(r.rid, r.body) ] ]
            ELSE /\ opa_data' = opa_data
                 /\ req' = [ req EXCEPT ![i] =
                             [ r1 EXCEPT !.resp =
                                 HTTPException(500, "Failed to grant access") ] ]
    /\ UNCHANGED <<app, opa_policies, fgaVars>>

\* update_permissions: the five sections in the order the handler tests them
SectionOrder ==
    <<"permissions", "group_permissions", "users", "organizations", "resources">>
Sections == { SectionOrder[k] : k \in DOMAIN SectionOrder }

AdminBodies ==
    { [permissions |-> EmptyDoc, organizations |-> [orgs |-> "v1"]],
      [users |-> [users |-> "v1"], bogus |-> "x"],
      [bogus |-> "x"],
      [group_permissions |-> [groups |-> "v1"], resources |-> [resources |-> "v1"]] }

\* update_permissions lines 240-280: the index in SectionOrder of the first
\* section from k on that the body names, Len(SectionOrder) + 1 when none
RECURSIVE Opa_next_section(_, _)
Opa_next_section(body, k) ==
    IF k > Len(SectionOrder) THEN k
    ELSE IF SectionOrder[k] \in DOMAIN body THEN k
    ELSE Opa_next_section(body, k + 1)

\* update_permissions: the 200 response and the response of the except
Opa_update_permissions_resp(raised, updated_sections) ==
    IF raised
    THEN HTTPException(500, "Failed to update permissions: error")
    ELSE [ status |-> 200,
           body |-> [ message |-> "Permissions updated successfully",
                      updated_sections |-> updated_sections ] ]

\* update_permissions runs on from section k: it sends the PUT of the next
\* named section and waits for its answer, or returns when none is left
Opa_update_from(r, k) ==
    LET n == Opa_next_section(r.body, k) IN
    IF n > Len(SectionOrder)
    THEN [ r EXCEPT !.pc = "done",
                    !.resp = Opa_update_permissions_resp(FALSE, r.updated_sections) ]
    ELSE [ r EXCEPT !.pc = "put", !.sec = n ]

\* POST /admin/permissions arrives: the handler declares no auth_middleware
\* and runs to its first PUT
Opa_UpdatePermissions(i) ==
    /\ app = "opa"
    /\ req[i].pc = "idle"
    /\ \E body \in AdminBodies, hdr \in Authorizations :
         req' = [ req EXCEPT ![i] =
                  Opa_update_from(
                    [ Idle EXCEPT !.op = "ADMIN_PERMISSIONS", !.method = "POST",
                                  !.hdr = hdr, !.body = body, !.pre = opa_data,
                                  !.wr = EmptyDoc ], 1) ]
    /\ UNCHANGED <<app, opaVars, fgaVars>>

\* update_permissions: the PUT it waits on is answered.  The status of the
\* answer is never read: the section is listed unless the call raised.
Opa_UpdatePermissionsPut(i) ==
    /\ app = "opa"
    /\ req[i].pc = "put"
    /\ LET r == req[i]
           s == SectionOrder[r.sec]
       IN \E out \in WriteOutcomes :
            LET r1 == [ r EXCEPT !.calls = Append(@, <<"data_put", s>>),
                                 !.wr = (s :> out) @@ @ ]
            IN
            /\ opa_data' = IF out = "ok"
                           THEN Opa_put_section(opa_data, s, r.body[s])
                           ELSE opa_data
            /\ req' = [ req EXCEPT ![i] =
                 IF out = "raise"
                 THEN [ r1 EXCEPT !.pc = "done",
                          !.resp = Opa_update_permissions_resp(TRUE, r.updated_sections) ]
                 ELSE Opa_update_from(
                        [ r1 EXCEPT !.updated_sections = Append(@, s),
                                    !.applied = IF out = "ok" THEN @ \cup {s} ELSE @ ],
                        r.sec + 1) ]
    /\ UNCHANGED <<app, opa_policies, fgaVars>>

PolicyBodies ==
    { EmptyDoc,
      [policy |-> ""],
      [policy |-> "allow_all"],
      [name |-> "authz", policy |-> "by_permissions"],
      [name |-> "audit", policy |-> "by_permissions"] }

\* update_policy that acknowledges without sending the policy
Opa_put_policy_NotSent(policies, policy_name, policy_content) == policies

\* client.put(f"{OPA_URL}/v1/policies/{policy_name}", data=policy_content),
\* applied by the PDP
Opa_put_policy(policies, policy_name, policy_content) ==
    (policy_name :> policy_content) @@ policies

\* update_policy: the response; out is what the PUT of the policy does.
\* The HTTPException(400) is raised inside the try and caught by
\* "except Exception", which answers 500 with str(e) in the detail.
Opa_update_policy_resp(body, out) ==
    LET policy_name == Get(body, "name", "authz")
        policy_content == Get(body, "policy", None)
    IN IF ~Truthy(policy_content)
       THEN HTTPException(500,
              "Failed to update policy: 400: Policy content is required")
       ELSE IF out = "raise"
       THEN HTTPException(500, "Failed to update policy: error")
       ELSE IF out = "rejected"
       THEN HTTPException(500,
              "Failed to update policy: Policy update failed: error")
       ELSE [ status |-> 200,
              body |-> [ message |-> "Policy '" \o policy_name
                                       \o "' updated successfully" ] ]

\* POST /admin/policy: the handler declares no auth_middleware
Opa_UpdatePolicy(i) ==
    /\ app = "opa"
    /\ req[i].pc = "idle"
    /\ \E body \in PolicyBodies, hdr \in Authorizations, out \in WriteOutcomes :
         LET policy_name == Get(body, "name", "authz")
             policy_content == Get(body, "policy", None)
             sent == Truthy(policy_content)
         IN /\ opa_policies' =
                 IF sent /\ out = "ok"
                 THEN Opa_put_policy(opa_policies, policy_name, policy_content)
                 ELSE opa_policies
            /\ req' = [ req EXCEPT ![i] =
                  [ Idle EXCEPT !.pc = "done", !.op = "ADMIN_POLICY",
                                !.method = "POST", !.hdr = hdr, !.body = body,
                                !.pre = opa_policies,
                                !.wr = IF sent THEN [kind |-> out] ELSE NoReply,
                                !.applied = IF sent /\ out = "ok"
                                            THEN {policy_name} ELSE {},
                                !.calls = IF sent
                                          THEN << <<"policy_put", policy_name>> >>
                                          ELSE <<>>,
                                !.resp = Opa_update_policy_resp(body, out) ] ]
    /\ UNCHANGED <<app, opa_data, fgaVars>>

(***************************************************************************)
(* Graph backend: src/openfga/python/main.py                               *)
(***************************************************************************)
\* ENDPOINT_PERMISSIONS with "DELETE": "can_edit"
ENDPOINT_PERMISSIONS_DeleteCanEdit ==
    [ GET |-> "can_view", POST |-> "can_edit", PUT |-> "can_edit",
      PATCH |-> "can_edit", DELETE |-> "can_edit" ]

ENDPOINT_PERMISSIONS ==
    [ GET |-> "can_view", POST |-> "can_edit", PUT |-> "can_edit",
      PATCH |-> "can_edit", DELETE |-> "owner" ]

\* What OPENFGA_STORE_ID_FILE can hold: None when the file is missing
FileContents == {None, "", "s1\n", "s2\n"}
StoreIds == {"s1", "s2"}

\* str.strip() on the contents of FileContents
Strip(text) ==
    CASE text = "s1\n" -> "s1"
      [] text = "s2\n" -> "s2"
      [] OTHER -> text

\* get_store_id: the stripped content, None when the file does not exist
get_store_id(file) == IF file # None THEN Strip(file) ELSE None

\* get_fga_client without the test "_fga_client is None": every call
\* constructs a client
get_fga_client_AlwaysBuild(client, file, startup) ==
    LET current_store_id == Or(get_store_id(file), startup)
    IN IF ~Truthy(current_store_id)
       THEN [ client |-> client, raised |-> TRUE, built |-> FALSE ]
       ELSE [ client |-> current_store_id, raised |-> FALSE, built |-> TRUE ]

\* get_fga_client with current_store_id = OPENFGA_STORE_ID: the file is not
\* read again
get_fga_client_StartupOnly(client, file, startup) ==
    IF client = None
    THEN IF ~Truthy(startup)
         THEN [ client |-> None, raised |-> TRUE, built |-> FALSE ]
         ELSE [ client |-> startup, raised |-> FALSE, built |-> TRUE ]
    ELSE [ client |-> client, raised |-> FALSE, built |-> FALSE ]

\* get_fga_client: the new value of _fga_client, whether the call raised
\* HTTPException(500) and whether it constructed a client.  The client is
\* named by the store id it was built with.  The function has no await: it
\* runs in one step of the event loop.
get_fga_client(client, file, startup) ==
    IF client = None
    THEN LET current_store_id == Or(get_store_id(file), startup)
         IN IF ~Truthy(current_store_id)
            THEN [ client |-> None, raised |-> TRUE, built |-> FALSE ]
            ELSE [ client |-> current_store_id, raised |-> FALSE, built |-> TRUE ]
    ELSE [ client |-> client, raised |-> FALSE, built |-> FALSE ]

\* auth_middleware with token_info.get("active", True)
Fga_auth_middleware_ActiveDefault(authorization, ir) ==
    IF ~Truthy(authorization) THEN HTTPException(401, "Missing token")
    ELSE IF ir.kind = "raise" THEN HTTPException(401, "Invalid token: error")
    ELSE IF ir.status # 200 THEN HTTPException(401, "Token introspection failed")
    ELSE IF ir.kind = "notjson" THEN HTTPException(401, "Invalid token: error")
    ELSE IF ~Get(ir.json, "active", TRUE)
         THEN HTTPException(401, "Token is not active")
    ELSE [ status |-> 200,
           body |-> [ user_id |-> Or(Get(ir.json, "preferred_username", None),
                                     Get(ir.json, "client_id", "unknown")),
                      client_id |-> Get(ir.json, "client_id", "unknown"),
                      token |-> StripBearer(authorization),
                      scope |-> Get(ir.json, "scope", "") ] ]

\* auth_middleware: the 401 response, or the user dict with status 200
Fga_auth_middleware(authorization, ir) ==
    IF ~Truthy(authorization) THEN HTTPException(401, "Missing token")
    ELSE IF ir.kind = "raise" THEN HTTPException(401, "Invalid token: error")
    ELSE IF ir.status # 200 THEN HTTPException(401, "Token introspection failed")
    ELSE IF ir.kind = "notjson" THEN HTTPException(401, "Invalid token: error")
    ELSE IF ~Get(ir.json, "active", FALSE)
         THEN HTTPException(401, "Token is not active")
    ELSE [ status |-> 200,
           body |-> [ user_id |-> Or(Get(ir.json, "preferred_username", None),
                                     Get(ir.json, "client_id", "unknown")),
                      client_id |-> Get(ir.json, "client_id", "unknown"),
                      token |-> StripBearer(authorization),
                      scope |-> Get(ir.json, "scope", "") ] ]

\* ClientCheckRequest of check_authorization
Fga_check_request(user_id, resource_id, required_permission) ==
    [ user |-> "user:" \o user_id,
      relation |-> required_permission,
      object |-> "resource:" \o resource_id ]

\* ClientTuple of grant_access
Fga_write_tuple(body, resource_id) ==
    [ user |-> Get(body, "user", None),
      relation |-> Get(body, "relation", "can_view"),
      object |-> "resource:" \o resource_id ]

\* The OpenFGA server: a check is allowed when the tuple is stored
FgaCheckReplies(store, request) ==
    { [kind |-> "raise", msg |-> "Connection refused"],
      [kind |-> "ok", allowed |-> (request \in fga_tuples[store])] }

\* check_authorization that lets the HTTPException of get_fga_client pass
\* as a truthy value instead of catching it
Fga_check_authorization_NoClientOpen(got, reply) ==
    IF got.raised THEN TRUE
    ELSE IF reply.kind = "raise" THEN FALSE
    ELSE reply.allowed

\* check_authorization with "except Exception: return True" around the
\* check call
Fga_check_authorization_RaiseOpen(got, reply) ==
    IF got.raised THEN FALSE
    ELSE IF reply.kind = "raise" THEN TRUE
    ELSE reply.allowed

\* check_authorization, given the outcome of get_fga_client and the reply
Fga_check_authorization(got, reply) ==
    IF got.raised THEN FALSE
    ELSE IF reply.kind = "raise" THEN FALSE
    ELSE reply.allowed

\* ENDPOINT_PERMISSIONS[request.method]: a verb outside the table raises
\* KeyError
Fga_mapAction(method) ==
    IF method \in DOMAIN ENDPOINT_PERMISSIONS
    THEN [ raised |-> FALSE, permission |-> ENDPOINT_PERMISSIONS[method] ]
    ELSE [ raised |-> TRUE, permission |-> "KeyError" ]

\* The permission each handler asks for
Fga_required_permission(op) ==
    IF op = "GRANT" THEN "owner" ELSE Fga_mapAction(op).permission

Fga_resource_ok(op, rid, user_id) ==
    CASE op = "GET" ->
            [ status |-> 200,
              body |-> [ resource_id |-> rid, access |-> "granted",
                         user |-> user_id,
                         permission |-> ENDPOINT_PERMISSIONS[op] ] ]
      [] op = "PUT" ->
            [ status |-> 200,
              body |-> [ resource_id |-> rid, action |-> "updated",
                         user |-> user_id,
                         permission |-> ENDPOINT_PERMISSIONS[op] ] ]
      [] op = "DELETE" ->
            [ status |-> 200,
              body |-> [ resource_id |-> rid, action |-> "deleted",
                         user |-> user_id,
                         permission |-> ENDPOINT_PERMISSIONS[op] ] ]

Fga_denied(op) ==
    IF op = "GRANT"
    THEN HTTPException(403, "Only resource owners can grant access")
    ELSE HTTPException(403, "Access denied")

\* str(HTTPException(500, "OpenFGA store ID not available"))
NoStoreId == "500: OpenFGA store ID not available"

\* The handler after check_authorization returned, for request r and the
\* cached client: the 403, the 200 of a resource route, or grant_access going
\* on to its own get_fga_client call (line 192) and the write it then waits
\* on.  Gives the request and the new value of _fga_client.
Fga_after_check(r, client) ==
    IF ~r.allowed
    THEN [ req |-> [ r EXCEPT !.pc = "done", !.resp = Fga_denied(r.op) ],
           client |-> client ]
    ELSE IF r.op # "GRANT"
    THEN [ req |-> [ r EXCEPT !.pc = "done",
                       !.resp = Fga_resource_ok(r.op, r.rid, r.user.user_id) ],
           client |-> client ]
    ELSE LET got == get_fga_client(client, store_file, OPENFGA_STORE_ID) IN
         IF got.raised
         THEN [ req |-> [ r EXCEPT !.pc = "done",
                            !.resp = HTTPException(500,
                                       "Failed to grant access: " \o NoStoreId) ],
                client |-> got.client ]
         ELSE [ req |-> [ r EXCEPT !.pc = "write",
                            !.handle = got.client,
                            !.built = @ \/ got.built,
                            !.cur = Fga_write_tuple(r.body, r.rid) ],
                client |-> got.client ]

\* A protected request arrives and auth_middleware runs (Depends).  When the
\* introspection is answered the handler starts: check_authorization calls
\* get_fga_client, which installs the client, and waits on the check call;
\* without a store id it returns False at once.
Fga_Verify(i) ==
    /\ app = "fga"
    /\ req[i].pc = "idle"
    /\ \E op \in ProtectedOps, rid \in Resources, hdr \in Authorizations,
          ir \in IntrospectReplies :
        \E body \in BodiesOf(op) :
          LET u == Fga_auth_middleware(hdr, ir)
              r == [ Idle EXCEPT !.op = op, !.method = MethodOf(op),
                                 !.rid = rid, !.hdr = hdr, !.body = body,
                                 !.ir = IF Truthy(hdr) THEN ir ELSE NoReply,
                                 !.calls = IF Truthy(hdr)
                                           THEN << <<"introspect", "">> >>
                                           ELSE <<>> ]
          IN IF u.status # 200
             THEN /\ req' = [ req EXCEPT ![i] =
                                [ r EXCEPT !.pc = "done", !.resp = u ] ]
                  /\ fga_client' = fga_client
             ELSE LET got == get_fga_client(fga_client, store_file,
                                            OPENFGA_STORE_ID)
                      r0 == [ r EXCEPT !.user = u.body,
                                !.input = Fga_check_request(u.body.user_id, rid,
                                            Fga_required_permission(op)),
                                !.handle = got.client, !.built = got.built ]
                  IN IF got.raised
                     THEN LET reply == [kind |-> "noclient"]
                              out == Fga_after_check(
                                       [ r0 EXCEPT !.pdp = reply,
                                           !.allowed =
                                             Fga_check_authorization(got, reply) ],
                                       got.client)
                          IN /\ req' = [ req EXCEPT ![i] = out.req ]
                             /\ fga_client' = out.client
                     ELSE /\ req' = [ req EXCEPT ![i] =
                                        [ r0 EXCEPT !.pc = "decide" ] ]
                          /\ fga_client' = got.client
    /\ UNCHANGED <<app, opaVars, store_file, OPENFGA_STORE_ID, fga_tuples>>

\* The check call is answered: check_authorization returns and the handler
\* goes on
Fga_Decide(i) ==
    /\ app = "fga"
    /\ req[i].pc = "decide"
    /\ LET r == req[i]
           got == [ client |-> r.handle, raised |-> FALSE, built |-> FALSE ]
       IN \E reply \in FgaCheckReplies(r.handle, r.input) :
            LET out == Fga_after_check(
                         [ r EXCEPT !.pdp = reply,
                             !.allowed = Fga_check_authorization(got, reply),
                             !.calls = Append(@, <<"fga_check", r.handle>>) ],
                         fga_client)
            IN /\ req' = [ req EXCEPT ![i] = out.req ]
               /\ fga_client' = out.client
    /\ UNCHANGED <<app, opaVars, store_file, OPENFGA_STORE_ID, fga_tuples>>

\* What fga_client.write can do with a tuple: store it, refuse it because
\* it is stored already, or fail otherwise; an error carries its message
FgaWriteReplies(store, t) ==
    { [kind |-> "raise", msg |-> "Connection refused"] }
    \cup ( IF t \in fga_tuples[store]
           THEN { [kind |-> "raise",
                   msg |-> "cannot write a tuple which already exists"] }
           ELSE { [kind |-> "ok", msg |-> ""] } )

\* "already exists" in str(write_error), without lower(), against a
\* message that spells it otherwise
IsDuplicateError_WrongText(msg) == msg = "tuple Already Exists"

\* "already exists" in str(write_error).lower()
IsDuplicateError(msg) == msg = "cannot write a tuple which already exists"

\* grant_access lines 210-238: the response for the reply of the write
Fga_grant_resp(t, rid, reply) ==
    IF reply.kind = "ok"
    THEN [ status |-> 200,
           body |-> [ message |-> "Access granted successfully",
                      granted_to |-> t.user, relation |-> t.relation,
                      resource |-> rid, status |-> "newly_granted" ] ]
    ELSE IF IsDuplicateError(reply.msg)
    THEN [ status |-> 200,
           body |-> [ message |-> "Access already granted (no change needed)",
                      granted_to |-> t.user, relation |-> t.relation,
                      resource |-> rid, status |-> "already_exists" ] ]
    ELSE HTTPException(500, "Failed to grant access: " \o reply.msg)

\* grant_access: the write call is answered, then the response
Fga_GrantWrite(i) ==
    /\ app = "fga"
    /\ req[i].pc = "write"
    /\ LET r == req[i]
           t == r.cur
       IN \E reply \in FgaWriteReplies(r.handle, t) :
            /\ fga_tuples' =
                 IF reply.kind = "ok"
                 THEN [ fga_tuples EXCEPT ![r.handle] = @ \cup {t} ]
                 ELSE fga_tuples
            /\ req' = [ req EXCEPT ![i] =
                  [ r EXCEPT !.pc = "done", !.wr = reply,
                             !.pre = fga_tuples[r.handle],
                             !.calls = Append(@, <<"fga_write", r.handle>>),
                             !.applied = IF reply.kind = "ok" THEN {t} ELSE {},
                             !.resp = Fga_grant_resp(t, r.rid, reply) ] ]
    /\ UNCHANGED <<app, opaVars, store_file, OPENFGA_STORE_ID, fga_client>>

\* The debug routes that use the client: GET /debug/tuples and
\* GET /debug/test-openfga.  Neither declares auth_middleware.
DebugOps == {"DEBUG_TUPLES", "DEBUG_TEST"}

\* The check request of debug_test_openfga
Fga_debug_check_request ==
    [ user |-> "user:test-user", relation |-> "can_view",
      object |-> "resource:test-resource" ]

\* What fga_client.read can answer: the tuples of the store, or an error
FgaReadReplies(store) ==
    { [kind |-> "raise", msg |-> "Connection refused"],
      [kind |-> "ok", tuples |-> fga_tuples[store]] }

\* The payload of the except of a debug route
Fga_debug_error(op, msg, error_type) ==
    [ status |-> 200,
      body |-> IF op = "DEBUG_TUPLES"
               THEN [ error |-> "Failed to read tuples: " \o msg ]
               ELSE [ error |-> msg, error_type |-> error_type ] ]

\* The payload of a debug route for the reply of its call (response_type,
\* the name of the SDK's class, is left out)
Fga_debug_resp(op, reply) ==
    IF reply.kind = "raise" THEN Fga_debug_error(op, reply.msg, "Exception")
    ELSE IF op = "DEBUG_TUPLES"
    THEN [ status |-> 200,
           body |-> [ tuples |-> reply.tuples,
                      total |-> Cardinality(reply.tuples) ] ]
    ELSE [ status |-> 200,
           body |-> [ test_result |-> "success",
                      response_allowed |-> reply.allowed ] ]

\* A debug request arrives: get_fga_client, then the handler waits on its
\* read or check call; without a store id it answers the error payload
Fga_Debug(i) ==
    /\ app = "fga"
    /\ req[i].pc = "idle"
    /\ \E op \in DebugOps, hdr \in Authorizations :
         LET got == get_fga_client(fga_client, store_file, OPENFGA_STORE_ID)
             r == [ Idle EXCEPT !.op = op, !.method = "GET", !.hdr = hdr,
                                !.handle = got.client, !.built = got.built ]
         IN /\ fga_client' = got.client
            /\ req' = [ req EXCEPT ![i] =
                 IF got.raised
                 THEN [ r EXCEPT !.pc = "done",
                          !.resp = Fga_debug_error(op, NoStoreId, "HTTPException") ]
                 ELSE [ r EXCEPT !.pc = "debug" ] ]
    /\ UNCHANGED <<app, opaVars, store_file, OPENFGA_STORE_ID, fga_tuples>>

\* The call of a debug route is answered
Fga_DebugReply(i) ==
    /\ app = "fga"
    /\ req[i].pc = "debug"
    /\ LET r == req[i]
       IN \E reply \in IF r.op = "DEBUG_TUPLES" THEN FgaReadReplies(r.handle)
                        ELSE FgaCheckReplies(r.handle, Fga_debug_check_request) :
            req' = [ req EXCEPT ![i] =
                     [ r EXCEPT !.pc = "done", !.rd = reply,
                         !.calls = Append(@, << IF r.op = "DEBUG_TUPLES"
                                                THEN "fga_read" ELSE "fga_check",
                                                r.handle >>),
                         !.resp = Fga_debug_resp(r.op, reply) ] ]
    /\ UNCHANGED <<app, opaVars, fgaVars>>

\* Somebody rewrites or removes the store id file
StoreFileWrite ==
    /\ app = "fga"
    /\ \E c \in FileContents \ {store_file} : store_file' = c
    /\ UNCHANGED <<app, req, opaVars, OPENFGA_STORE_ID, fga_client, fga_tuples>>

\* The verbs /resources/{resource_id} has a route for, in both programs
RoutedVerbs == {"GET", "PUT", "DELETE"}

\* A request on /resources/{resource_id} with a verb no route is declared
\* for: the router answers 405 and no handler or dependency runs
Unrouted(i) ==
    /\ req[i].pc = "idle"
    /\ \E method \in Verbs \ RoutedVerbs, rid \in Resources,
          hdr \in Authorizations :
         req' = [ req EXCEPT ![i] =
                  [ Idle EXCEPT !.pc = "done", !.op = "UNROUTED",
                                !.method = method, !.rid = rid, !.hdr = hdr,
                                !.resp = HTTPException(405, "Method Not Allowed") ] ]
    /\ UNCHANGED <<app, opaVars, fgaVars>>

InitTuples ==
    { [user |-> "user:bob", relation |-> "owner", object |-> "resource:doc2"],
      [user |-> "user:bob", relation |-> "can_view", object |-> "resource:doc2"] }

\* The response has been sent: the slot is free again
Complete(i) ==
    /\ req[i].pc = "done"
    /\ req' = [ req EXCEPT ![i] = Idle ]
    /\ UNCHANGED <<app, opaVars, fgaVars>>

InitOpaData ==
    [ permissions |-> [alice |-> [doc1 |-> [read |-> TRUE, create |-> TRUE]]],
      group_permissions |-> [groups |-> "v0"], users |-> [users |-> "v0"],
      organizations |-> [orgs |-> "v0"], resources |-> [resources |-> "v0"] ]

\* Either program right after import; OPENFGA_STORE_ID = get_store_id()
Init ==
    /\ app \in {"opa", "fga"}
    /\ req = [ i \in Reqs |-> Idle ]
    /\ opa_data = InitOpaData
    /\ opa_policies = [authz |-> "by_permissions"]
    /\ store_file \in (IF app = "fga" THEN {None, "s1\n"} ELSE {None})
    /\ OPENFGA_STORE_ID = get_store_id(store_file)
    /\ fga_client = None
    /\ fga_tuples = [ s \in StoreIds |-> InitTuples ]

Next ==
    \E i \in Reqs :
        \/ Opa_Verify(i)
        \/ Opa_Decide(i)
        \/ Opa_GrantRead(i)
        \/ Opa_GrantWrite(i)
        \/ Opa_UpdatePermissions(i)
        \/ Opa_UpdatePermissionsPut(i)
        \/ Opa_UpdatePolicy(i)
        \/ Fga_Verify(i)
        \/ Fga_Decide(i)
        \/ Fga_GrantWrite(i)
        \/ Fga_Debug(i)
        \/ Fga_DebugReply(i)
        \/ StoreFileWrite
        \/ Unrouted(i)
        \/ Complete(i)

Spec == Init /\ [][Next]_vars

(***************************************************************************)
(* Overlapping requests: MaxReq grants by a caller with a valid token,     *)
(* interleaved at their awaits.  The attribute backend's PDP answers the   *)
(* decision and the read; every other reply stays open.                    *)
(***************************************************************************)
\* alice may grant on doc1 and doc2
ConcOpaData ==
    [ InitOpaData EXCEPT !.permissions =
        [ alice |-> [ doc1 |-> [create |-> TRUE], doc2 |-> [create |-> TRUE] ] ] ]

\* A verified grant naming its target user, sent by the administrator
\* (attribute backend) or the owner (graph backend)
ConcGrant(r) ==
    /\ r.op = "GRANT"
    /\ "user" \in DOMAIN r.body
    /\ r.pc = "decide" \/ r.pdp.kind = "noclient"
    /\ r.user.user_id = (IF app = "opa" THEN "alice" ELSE "bob")

Conc_Opa_Verify(i) == Opa_Arrive(i, Conc_GrantBodies) /\ ConcGrant(req'[i])

Conc_Opa_Decide(i) == Opa_Decide(i) /\ req'[i].pc = "read"

Conc_Opa_GrantRead(i) == Opa_GrantRead(i) /\ req'[i].rd.kind = "json"

\* An update of the permissions section sent without a token, whose PUTs
\* the PDP applies
Conc_Opa_UpdatePermissions(i) ==
    /\ Opa_UpdatePermissions(i)
    /\ req'[i].hdr = None
    /\ "permissions" \in DOMAIN req'[i].body

Conc_Opa_UpdatePermissionsPut(i) ==
    /\ Opa_UpdatePermissionsPut(i)
    /\ \A s \in DOMAIN req'[i].wr : req'[i].wr[s] = "ok"

\* bob grants on the resource he owns
Conc_Fga_Verify(i) ==
    Fga_Verify(i) /\ ConcGrant(req'[i]) /\ req'[i].rid = "doc2"

\* A debug request, sent without a token
Conc_Fga_Debug(i) == Fga_Debug(i) /\ req'[i].hdr = None

\* The store id file is written with a store id
Conc_StoreFileWrite == StoreFileWrite /\ Truthy(get_store_id(store_file'))

InitConc ==
    /\ app \in {"opa", "fga"}
    /\ req = [ i \in ConcReqs |-> Idle ]
    /\ opa_data = ConcOpaData
    /\ opa_policies = [authz |-> "by_permissions"]
    /\ store_file \in (IF app = "fga" THEN {None, "s1\n"} ELSE {None})
    /\ OPENFGA_STORE_ID = get_store_id(store_file)
    /\ fga_client = None
    /\ fga_tuples = [ s \in StoreIds |-> InitTuples ]

NextConc ==
    \E i \in ConcReqs :
        \/ Conc_Opa_Verify(i)
        \/ Conc_Opa_Decide(i)
        \/ Conc_Opa_GrantRead(i)
        \/ Opa_GrantWrite(i)
        \/ Conc_Opa_UpdatePermissions(i)
        \/ Conc_Opa_UpdatePermissionsPut(i)
        \/ Conc_Fga_Verify(i)
        \/ Fga_Decide(i)
        \/ Fga_GrantWrite(i)
        \/ Conc_Fga_Debug(i)
        \/ Fga_DebugReply(i)
        \/ Conc_StoreFileWrite

SpecConc == InitConc /\ [][NextConc]_vars

(***************************************************************************)
(* Claims                                                                  *)
(***************************************************************************)
\* The introspection call of request r reported the token active
Verified(r) ==
    /\ r.ir.kind = "json"
    /\ "active" \in DOMAIN r.ir.json
    /\ r.ir.json.active = TRUE

\* The PDP answered the decision call of request r with an allow verdict
PdpAllowed(r) ==
    \/ /\ r.pdp.kind = "json"
       /\ r.pdp.status = 200
       /\ "result" \in DOMAIN r.pdp.json
       /\ r.pdp.json.result = TRUE
    \/ /\ r.pdp.kind = "ok"
       /\ r.pdp.allowed = TRUE

\* The decision step of request r ended in a negative verdict or an error
PdpRefused(r) == r.pdp.kind # "none" /\ ~PdpAllowed(r)

\* The sections request r sent a PUT for
PutSections(r) ==
    { r.calls[k][2] : k \in { n \in DOMAIN r.calls : r.calls[n][1] = "data_put" } }

\* C1: a GET, PUT or DELETE on /resources/{id}, in either backend, answers
\* 200 only if the introspection of that request reported the token active
\* and its decision call returned allow; when the verdict is negative or the
\* decision call errored the response is 403 without an access field.
C1_SuccessOnlyIfVerifiedAndAllowed ==
    \A i \in Reqs :
        LET r == req[i] IN
        (r.pc = "done" /\ r.op \in ResourceOps) =>
            /\ r.resp.status = 200 => (Verified(r) /\ PdpAllowed(r))
            /\ PdpRefused(r) =>
                  (r.resp.status = 403 /\ "access" \notin DOMAIN r.resp.body)

C1_Witness ==
    \E i \in Reqs :
        /\ req[i].pc = "done"
        /\ req[i].op = "GET"
        /\ req[i].resp.status = 200
        /\ req[i].resp.body.access = "granted"
        /\ Verified(req[i]) /\ PdpAllowed(req[i])

\* C2: a protected request with no token, or whose introspection raised,
\* answered a non-200 status, or did not report active = true, ends in 401
\* in either backend, and no decision call is issued for it.
C2_UnverifiedIs401 ==
    \A i \in Reqs :
        LET r == req[i] IN
        (r.op \in ProtectedOps /\ ~Verified(r)) =>
            /\ r.pc = "done"
            /\ r.resp.status = 401
            /\ \A k \in DOMAIN r.calls : r.calls[k][1] = "introspect"

C2_Witness ==
    \E i \in Reqs :
        /\ req[i].pc = "done"
        /\ req[i].op = "DELETE"
        /\ req[i].ir.kind = "json"
        /\ "active" \notin DOMAIN req[i].ir.json
        /\ req[i].resp.status = 401

\* C3: in the attribute backend check_authorization returns true exactly
\* when the PDP answered 200 with result = true; a raised call, a non-200
\* status, a body without result and result = false all give false.
C3_OpaFailClosed ==
    \A i \in Reqs :
        LET r == req[i] IN
        (app = "opa" /\ r.pdp.kind # "none") =>
            (r.allowed = TRUE <=>
                /\ r.pdp.kind = "json"
                /\ r.pdp.status = 200
                /\ "result" \in DOMAIN r.pdp.json
                /\ r.pdp.json.result = TRUE)

C3_Witness ==
    \E i \in Reqs :
        /\ app = "opa"
        /\ req[i].pdp.kind = "json"
        /\ "result" \notin DOMAIN req[i].pdp.json
        /\ req[i].allowed = FALSE
        /\ req[i].resp.status = 403

\* C4: in the graph backend, when get_fga_client cannot build the client
\* (no store id) or the check call fails, check_authorization returns false
\* and the request ends in 403.
C4_FgaFailClosed ==
    \A i \in Reqs :
        LET r == req[i] IN
        (app = "fga" /\ r.pdp.kind \in {"noclient", "raise"}) =>
            /\ r.allowed = FALSE
            /\ r.pc = "done"
            /\ r.resp.status = 403

C4_Witness ==
    \E i \in Reqs :
        /\ app = "fga"
        /\ req[i].pdp.kind = "noclient"
        /\ fga_client = None
        /\ req[i].resp.status = 403

\* C5: a section write or a policy push reaches the PDP only for a request
\* whose token was verified and whose decision call returned allow.
C5_AdminWritesOnlyWhenVerified ==
    \A i \in Reqs :
        LET r == req[i] IN
        ( /\ r.op \in {"ADMIN_PERMISSIONS", "ADMIN_POLICY"}
          /\ \E k \in DOMAIN r.calls : r.calls[k][1] \in {"data_put", "policy_put"} )
        => (Verified(r) /\ PdpAllowed(r))

\* C6: a grant whose tuple the store does not hold answers newly_granted and
\* adds exactly that tuple; a grant whose tuple the store holds already (a
\* repeated grant) answers 200 already_exists and leaves the tuple set, and
\* with it every check, as it was.
C6_GrantGraphIdempotent ==
    \A i \in Reqs :
        LET r == req[i] IN
        ( /\ app = "fga" /\ r.pc = "done" /\ r.op = "GRANT"
          /\ r.wr.kind # "none"
          /\ ~(r.wr.kind = "raise" /\ r.wr.msg = "Connection refused") )
        => /\ r.resp.status = 200
           /\ IF r.cur \in r.pre
              THEN /\ r.resp.body.status = "already_exists"
                   /\ fga_tuples[fga_client] = r.pre
              ELSE /\ r.resp.body.status = "newly_granted"
                   /\ fga_tuples[fga_client] = r.pre \cup {r.cur}

C6_Witness ==
    \E i \in Reqs :
        /\ app = "fga" /\ req[i].pc = "done" /\ req[i].op = "GRANT"
        /\ req[i].wr.kind = "raise"
        /\ req[i].cur \in req[i].pre
        /\ req[i].cur \notin InitTuples
        /\ req[i].resp.status = 200
        /\ req[i].resp.body.status = "already_exists"

\* C7: after an acknowledged grant of relation R on resource X to the target
\* user U of the request, the check for subject U, relation R, object X is
\* allowed: the store holds the tuple with the subject key user:U.
C7_GrantThenCheck ==
    \A i \in Reqs :
        LET r == req[i] IN
        ( /\ app = "fga" /\ r.pc = "done" /\ r.op = "GRANT"
          /\ r.resp.status = 200 /\ "user" \in DOMAIN r.body )
        => [ user |-> "user:" \o r.body.user,
             relation |-> r.resp.body.relation,
             object |-> "resource:" \o r.rid ] \in fga_tuples[fga_client]

\* Every permission recorded in pre is recorded in post
Preserved(pre, post) ==
    \A u \in DOMAIN pre : \A x \in DOMAIN pre[u] : \A p \in DOMAIN pre[u][x] :
        /\ u \in DOMAIN post
        /\ x \in DOMAIN post[u]
        /\ p \in DOMAIN post[u][x]
        /\ post[u][x][p] = pre[u][x][p]

\* C8: after an acknowledged grant on the attribute backend, with no other
\* grant in between, the stored permissions section holds every permission
\* it held before the call and the granted entry.
C8_GrantAttributePreserves ==
    \A i \in Reqs :
        LET r == req[i] IN
        ( /\ app = "opa" /\ r.pc = "done" /\ r.op = "GRANT"
          /\ r.resp.status = 200 )
        => /\ Preserved(r.pre, opa_data.permissions)
           /\ "user" \in DOMAIN r.body =>
                Preserved([ u \in {r.body.user} |->
                              [ x \in {r.rid} |->
                                  [ p \in {r.resp.body.permission} |-> TRUE ] ] ],
                          opa_data.permissions)

\* C9: update_permissions sends a PUT only for sections named in the body,
\* for every one of them when it answers 200; a stored section changes only
\* if it is named, and then to the document of the body; a body naming none
\* of the five sections causes no call, no change and no error.
C9_SectionScopedUpdate ==
    \A i \in Reqs :
        LET r == req[i]
            named == DOMAIN r.body \cap Sections
        IN
        (r.pc = "done" /\ r.op = "ADMIN_PERMISSIONS") =>
            /\ \A s \in Sections \ named : opa_data[s] = r.pre[s]
            /\ \A s \in named :
                  opa_data[s] # r.pre[s] => opa_data[s] = r.body[s]
            /\ \A s \in r.applied : s \in named /\ opa_data[s] = r.body[s]
            /\ \A s \in named :
                  (r.resp.status = 200 /\ r.wr[s] = "ok") => opa_data[s] = r.body[s]
            /\ PutSections(r) \subseteq named
            /\ r.resp.status = 200 => PutSections(r) = named
            /\ named = {} =>
                  (r.calls = <<>> /\ r.resp.status = 200 /\ opa_data = r.pre)

C9_Witness ==
    \E i \in Reqs :
        /\ req[i].pc = "done" /\ req[i].op = "ADMIN_PERMISSIONS"
        /\ req[i].applied = {"permissions", "organizations"}
        /\ opa_data.permissions # req[i].pre.permissions
        /\ opa_data.organizations # req[i].pre.organizations
        /\ opa_data.users = [users |-> "v1"]
        /\ opa_data.users = req[i].pre.users
        /\ req[i].resp.status = 200

\* C10: update_permissions answers 500 when the PUT of a named section
\* raises or is answered with a non-success status, and every section it
\* lists in updated_sections was applied by the PDP.
C10_NoSuccessForFailedSection ==
    \A i \in Reqs :
        LET r == req[i]
            listed == Get(r.resp.body, "updated_sections", <<>>)
        IN
        (r.pc = "done" /\ r.op = "ADMIN_PERMISSIONS") =>
            /\ (\E s \in DOMAIN r.wr : r.wr[s] # "ok") => r.resp.status = 500
            /\ \A k \in DOMAIN listed : listed[k] \in r.applied

\* The write calls (section PUT, policy PUT, tuple write) request r issued
WriteCalls(r) ==
    { k \in DOMAIN r.calls :
        r.calls[k][1] \in {"data_put", "policy_put", "fga_write"} }

\* C11: update_policy with an empty or missing policy answers 400 and sends
\* no policy push to the PDP; with a non-empty policy whose push raises or is
\* rejected it answers 500.
C11_UpdatePolicyEmptyIs400 ==
    \A i \in Reqs :
        LET r == req[i]
            policy_content == Get(r.body, "policy", None)
        IN
        (r.pc = "done" /\ r.op = "ADMIN_POLICY") =>
            /\ ~Truthy(policy_content) =>
                  (r.resp.status = 400 /\ WriteCalls(r) = {})
            /\ (Truthy(policy_content) /\ r.wr.kind # "ok") =>
                  r.resp.status = 500

\* C12: a grant whose body has no user field, sent by a verified caller the
\* PDP allows, answers 400 in either backend, and no request with such a
\* body issues a write call (no permissions entry, no tuple for an absent
\* target user).
C12_GrantWithoutUserIs400 ==
    \A i \in Reqs :
        LET r == req[i] IN
        (r.op = "GRANT" /\ "user" \notin DOMAIN r.body) =>
            /\ WriteCalls(r) = {}
            /\ (r.pc = "done" /\ Verified(r) /\ PdpAllowed(r)) =>
                  r.resp.status = 400

\* The reference tables of mapAction
RefAttribute ==
    [ GET |-> "read", POST |-> "create", PUT |-> "update", PATCH |-> "update",
      DELETE |-> "delete", HEAD |-> "head" ]
RefGraph ==
    [ GET |-> "can_view", POST |-> "can_edit", PUT |-> "can_edit",
      PATCH |-> "can_edit", DELETE |-> "owner" ]

\* C13: the action mapping of each backend equals its reference table on
\* every verb: the attribute backend maps a verb outside the table to the
\* verb lower-cased, the graph backend raises for it and yields no
\* permission; a request with a verb that has no route is answered with a
\* 4xx and no PDP call; and the action or relation sent to the PDP for a GET,
\* PUT or DELETE is the table's entry for the verb of the request.
C13_MapActionTables ==
    /\ \A v \in Verbs : Opa_mapAction(v) = RefAttribute[v]
    /\ \A v \in Verbs :
          IF v \in DOMAIN RefGraph
          THEN Fga_mapAction(v) = [ raised |-> FALSE, permission |-> RefGraph[v] ]
          ELSE Fga_mapAction(v).raised
    /\ \A i \in Reqs :
          LET r == req[i] IN
          /\ (r.op \in ResourceOps /\ r.pdp.kind # "none" /\ app = "opa") =>
                r.input.action = RefAttribute[r.method]
          /\ (r.op \in ResourceOps /\ r.pdp.kind # "none" /\ app = "fga") =>
                r.input.relation = RefGraph[r.method]
          /\ r.op = "UNROUTED" =>
                (r.resp.status \in 400..499 /\ r.calls = <<>>)

C13_Witness ==
    \E i \in Reqs :
        /\ app = "fga" /\ req[i].op = "DELETE" /\ req[i].method = "DELETE"
        /\ req[i].pdp.kind = "ok"
        /\ req[i].input.relation = "owner"
        /\ req[i].resp.status = 403

\* C14: the decision input of a grant on the attribute backend carries
\* action = "grant_permission" at its top level, and its other reserved
\* fields are the caller's subject, the resource and the verb: nothing the
\* handler merges in replaces them.
C14_GrantActionOverridden ==
    \A i \in Reqs :
        LET r == req[i] IN
        (app = "opa" /\ r.op = "GRANT" /\ r.pdp.kind # "none") =>
            /\ r.input.action = "grant_permission"
            /\ r.input.user = r.user.user_id
            /\ r.input.resource = r.rid
            /\ r.input.method = r.method

\* Request i calls get_fga_client in this step: when its handler starts
\* (after auth_middleware on a protected route, at once on a debug route)
\* and when grant_access goes on after an allowed check
CallsGetClient(i) ==
    /\ app = "fga"
    /\ \/ /\ req[i].pc = "idle" /\ req'[i].pc # "idle"
          /\ req'[i].op \in DebugOps \/ Verified(req'[i])
       \/ /\ req[i].pc = "decide" /\ req'[i].pc # "decide"
          /\ req'[i].op = "GRANT" /\ req'[i].allowed

\* C15: whenever get_fga_client hands a request the client for a check, a
\* read or a write while the store id file holds a store id, the client
\* talks to that store: a client built before the file changed is rebuilt
\* before it is used.
C15_StoreHandleFresh ==
    [][ \A i \in Reqs :
          ( /\ CallsGetClient(i)
            /\ req'[i].handle # None
            /\ Truthy(get_store_id(store_file)) )
          => req'[i].handle = get_store_id(store_file) ]_vars

\* C16: in either backend the user_id of a verified request is the token's
\* preferred_username when it has a non-empty one, else its client_id, else
\* "unknown", and the request is not answered 401.
C16_SubjectDerivation ==
    \A i \in Reqs :
        LET r == req[i] IN
        (r.op \in ProtectedOps /\ Verified(r)) =>
            /\ r.user.user_id =
                  Or(Get(r.ir.json, "preferred_username", None),
                     Get(r.ir.json, "client_id", "unknown"))
            /\ r.resp.status # 401

\* C17: in either backend a request the decision step refuses gets one and
\* the same response, 403 with the handler's fixed detail, whether the PDP
\* answered deny, raised, answered an error status, answered without a
\* verdict or could not be reached at all.
C17_NoCauseLeakage ==
    \A i \in Reqs :
        LET r == req[i] IN
        (r.pc = "done" /\ r.op \in ProtectedOps /\ PdpRefused(r)) =>
            r.resp =
              [ status |-> 403,
                body |-> [ detail |->
                  IF r.op # "GRANT" THEN "Access denied"
                  ELSE IF app = "opa"
                  THEN "Only resource administrators can grant access"
                  ELSE "Only resource owners can grant access" ] ]

C17_Witness ==
    \E i \in Reqs :
        /\ app = "fga" /\ req[i].pc = "done" /\ req[i].op = "GET"
        /\ req[i].pdp.kind = "raise"
        /\ fga_client # None
        /\ req[i].input \in fga_tuples[fga_client]
        /\ req[i].resp = HTTPException(403, "Access denied")

\* C18: an acknowledged update_policy has installed its policy under its
\* name, and the verdict the gateway acts on for a GET, PUT or DELETE is the
\* PDP's evaluation of the policies installed now: nothing is cached, so a
\* caller the old policy denied is served once the new policy allows.
C18_PolicyUpdateTakesEffect ==
    \A i \in Reqs :
        LET r == req[i] IN
        /\ (r.pc = "done" /\ r.op = "ADMIN_POLICY" /\ r.resp.status = 200) =>
              Get(opa_policies, Get(r.body, "name", "authz"), None) = r.body.policy
        /\ ( /\ app = "opa" /\ r.op \in ResourceOps /\ r.pdp.kind = "json"
             /\ r.pdp.status = 200 /\ "result" \in DOMAIN r.pdp.json ) =>
              /\ r.allowed = OpaAllow(opa_policies, opa_data, r.input)
              /\ r.resp.status = 200 <=> r.allowed

C18_Witness ==
    \E i \in Reqs :
        /\ app = "opa" /\ req[i].pc = "done" /\ req[i].op = "GET"
        /\ req[i].resp.status = 200
        /\ opa_policies.authz = "allow_all"
        /\ req[i].user.user_id = "carol"
        /\ ~PolicyAllows("by_permissions", opa_data, req[i].input)

\* The kinds of the calls request r issued, in order
CallKinds(r) == [ k \in DOMAIN r.calls |-> r.calls[k][1] ]

\* The calls of a complete grant, in the order the code issues them
GrantCallOrder ==
    IF app = "opa" THEN <<"introspect", "decide", "data_get", "data_put">>
    ELSE <<"introspect", "fga_check", "fga_write">>

\* C19: the calls of a grant are a prefix of verify, decide, mutate; a grant
\* whose verification failed issues no decision and no write; a write is
\* issued only if the decision call of that request returned allow; a
\* request issues at most one decision call.
C19_GrantCallOrder ==
    \A i \in Reqs :
        LET r == req[i]
            kinds == CallKinds(r)
        IN
        r.op = "GRANT" =>
            /\ \E n \in 0..Len(GrantCallOrder) : kinds = SubSeq(GrantCallOrder, 1, n)
            /\ ~Verified(r) => \A k \in DOMAIN kinds : kinds[k] = "introspect"
            /\ WriteCalls(r) # {} => PdpAllowed(r)
            /\ Cardinality({ k \in DOMAIN kinds :
                               kinds[k] \in {"decide", "fga_check"} }) <= 1

C19_Witness ==
    \E i \in Reqs :
        /\ app = "opa" /\ req[i].pc = "done" /\ req[i].op = "GRANT"
        /\ CallKinds(req[i]) = <<"introspect", "decide", "data_get", "data_put">>
        /\ req[i].resp.status = 200

\* C20: a grant on the attribute backend whose read of the permissions
\* section, or whose write-back, raised or was answered with a non-success
\* status answers 500 and leaves the stored section as it found it.
C20_GrantAttributeFailsLoud ==
    \A i \in Reqs :
        LET r == req[i] IN
        ( /\ app = "opa" /\ r.pc = "done" /\ r.op = "GRANT"
          /\ \/ r.rd.kind = "raise"
             \/ r.rd.kind = "status"
             \/ r.wr.kind \in {"rejected", "raise"} )
        => /\ r.resp.status = 500
           /\ opa_data.permissions = r.pre

\* The stored permissions section perms holds the entry request r grants
HasGrant(perms, r) ==
    /\ r.body.user \in DOMAIN perms
    /\ r.rid \in DOMAIN perms[r.body.user]
    /\ Get(r.body, "relation", "read") \in DOMAIN perms[r.body.user][r.rid]

\* Requests i and j are two acknowledged grants of the attribute backend
AckedGrants(i, j) ==
    /\ i # j /\ app = "opa"
    /\ req[i].pc = "done" /\ req[i].op = "GRANT" /\ req[i].resp.status = 200
    /\ req[j].pc = "done" /\ req[j].op = "GRANT" /\ req[j].resp.status = 200

\* C21: the write-back of a grant holds no lock and merges nothing: an
\* acknowledged write leaves the stored section equal to the document the
\* writer built from its own earlier read, whatever was written in between.
\* Two overlapping grants on one resource can therefore both answer 200
\* while the section holds only the later writer's grant.
C21_LaterWriteWins ==
    [][ \A i \in ConcReqs :
          ( /\ app = "opa" /\ req[i].pc = "write" /\ req'[i].pc = "done"
            /\ req'[i].resp.status = 200 )
          => opa_data'.permissions = ToJson(req[i].cur) ]_vars

C21_Witness ==
    \E i, j \in ConcReqs :
        /\ AckedGrants(i, j)
        /\ req[i].rid = req[j].rid
        /\ req[i].rd.kind = "json" /\ req[j].rd.kind = "json"
        /\ HasGrant(opa_data.permissions, req[j])
        /\ ~HasGrant(opa_data.permissions, req[i])

\* C22: after two overlapping acknowledged grants on different resources,
\* each of which read the section successfully, the stored permissions
\* section holds both grants.
C22_IndependentGrants ==
    \A i, j \in ConcReqs :
        ( /\ AckedGrants(i, j)
          /\ req[i].rid # req[j].rid
          /\ req[i].rd.kind = "json" /\ req[j].rd.kind = "json" )
        => /\ HasGrant(opa_data.permissions, req[i])
           /\ HasGrant(opa_data.permissions, req[j])

\* C23: among overlapping requests at most one call of get_fga_client
\* constructs a client; every request that got a handle got the installed
\* one, bound to a store id, and every check, read and write call goes
\* through it.
C23_AtMostOneConstruction ==
    /\ Cardinality({ i \in ConcReqs : req[i].built }) <= 1
    /\ fga_client \in StoreIds \cup {None}
    /\ \A i \in ConcReqs :
          LET r == req[i] IN
          /\ (app = "fga" /\ r.pdp.kind \notin {"none", "noclient"}) =>
                r.handle \in StoreIds
          /\ r.handle # None => r.handle = fga_client
          /\ \A k \in DOMAIN r.calls :
                r.calls[k][1] \in {"fga_check", "fga_read", "fga_write"} =>
                    r.calls[k][2] = fga_client

C23_Witness ==
    \E i, j \in ConcReqs :
        /\ app = "fga" /\ i # j
        /\ req[i].built /\ ~req[j].built
        /\ req[i].handle = "s1" /\ req[j].handle = "s1"
        /\ req[i].pc = "write" /\ req[j].pc = "write"
        /\ store_file # "s1\n"

\* C24: a call of get_fga_client that fails leaves the cached client unset;
\* a call made while the client is unset and the store id file holds a store
\* id constructs the client for that store and does not fail; an installed
\* client is never unset or replaced.
C24_FailedConstructionNotSticky ==
    [][ /\ fga_client # None => fga_client' = fga_client
        /\ \A i \in ConcReqs :
             CallsGetClient(i) =>
                /\ req'[i].handle = None =>
                      (fga_client = None /\ fga_client' = None)
                /\ (fga_client = None /\ Truthy(get_store_id(store_file))) =>
                      /\ fga_client' = get_store_id(store_file)
                      /\ req'[i].handle = fga_client' ]_vars

C24_Witness ==
    \E i, j \in ConcReqs :
        /\ app = "fga" /\ OPENFGA_STORE_ID = None
        /\ req[i].pdp.kind = "noclient" /\ req[i].resp.status = 403
        /\ req[j].built /\ req[j].handle = "s2"
        /\ req[j].pdp.kind = "ok"
        /\ fga_client = "s2"

====
